---------------------------- MODULE Spec2Model ----------------------------
(***************************************************************************)
(* A model of futures_monitor.py: the session classifier, the settlement   *)
(* calendar, the price resolvers, the risk calculator, the alert checks    *)
(* and the main program that runs them once and sends one LINE message.    *)
(*                                                                         *)
(* Dates are proleptic day numbers counted from 2025-01-01 (day 0, a       *)
(* Wednesday): datetime.date comparison and timedelta(days=1) arithmetic   *)
(* are exactly integer comparison and +1 on that number.  A holiday set is *)
(* the set of dates whose "%Y-%m-%d" text is in the Python set.  Decimal   *)
(* quantities are exact rationals [n, d] with d > 0.                       *)
(***************************************************************************)
EXTENDS Integers, Sequences, FiniteSets, TLC

VARIABLES
    pc,             \* where the driver or the main program stands
    now,            \* [date, minute]: `now` of line 509, or the driver's clock
    clock,          \* [date, minute]: the wall clock, read again by the callees
    force,          \* FORCE_SESSION after strip().upper()
    holidays,       \* the holiday set
    session,        \* get_session()'s result
    check_dt,       \* the date the trading-day gate tested
    margin,         \* [init, maint]
    position,       \* [lots, entry_price, margin_cash]
    settlement,     \* current settlement date
    next_s,         \* next settlement date
    days_left,      \* trading_days_until(settlement)
    callee,         \* the resolver that is running, and who called it
    tw,             \* get_tw_index()'s result
    txf,            \* get_txf_night()'s result
    us_data,        \* get_us_markets()'s result
    price_for_risk, \* the price handed to calc_risk
    risk,           \* calc_risk()'s result
    alerts,         \* the alert list, as the sequence of the checks that fired
    sent,           \* the payloads passed to send_line
    exit_status,    \* the process's exit status, -1 while it runs
    log,            \* the external requests made, in order
    arg,            \* the pure-function drivers' last call
    ret             \* and what it returned

vars == << pc, now, clock, force, holidays, session, check_dt, margin, position,
           settlement, next_s, days_left, callee, tw, txf, us_data,
           price_for_risk, risk, alerts, sent, exit_status, log, arg, ret >>

-----------------------------------------------------------------------------
(* Bounds of the model.                                                    *)

\* civil years the calendar drivers take "today" from, starting with 2025
NumYears == 1
\* the longest run of consecutive holidays a holiday set of the drivers holds
MaxBlock == 10
\* days of the window the main program's `now` is drawn from
MaxDays == 9
\* minutes the wall clock may advance between two reads of it
MaxDelay == 1
\* days the calendar driver lets pass after its first count
MaxAdvance == 2

-----------------------------------------------------------------------------
(* Configuration, lines 26-30.                                             *)

MXF_MULTIPLIER == 10
ROLLOVER_WARN_DAYS == 3
CRASH_TW_PCT == [n |-> -25, d |-> 10]
CRASH_US_PCT == [n |-> -15, d |-> 10]
VIX_WARN == 25

\* Python's None where a date, a count or a session is expected
NoDate == -1

-----------------------------------------------------------------------------
(* datetime.date: the calendar.                                            *)

Epoch == [year |-> 2025, weekday |-> 2]
CalYears == Epoch.year .. (Epoch.year + NumYears + 1)

IsLeap(y) == (y % 4 = 0 /\ y % 100 # 0) \/ y % 400 = 0

DaysInMonth(y, m) ==
    IF m = 2 THEN (IF IsLeap(y) THEN 29 ELSE 28)
    ELSE IF m \in {4, 6, 9, 11} THEN 30 ELSE 31

DaysInYear(y) == IF IsLeap(y) THEN 366 ELSE 365

RECURSIVE DaysBeforeYear(_)
DaysBeforeYear(y) ==
    IF y <= Epoch.year THEN 0 ELSE DaysBeforeYear(y - 1) + DaysInYear(y - 1)

\* days of a common year before each month
CumDays == << 0, 31, 59, 90, 120, 151, 181, 212, 243, 273, 304, 334 >>

DaysBeforeMonth(y, m) == CumDays[m] + (IF m > 2 /\ IsLeap(y) THEN 1 ELSE 0)

\* datetime.date(year, month, day), for a day the month has
Ordinal(y, m, d) == DaysBeforeYear(y) + DaysBeforeMonth(y, m) + (d - 1)

\* date.year, date.month and date.day of a date
YearOf(o) ==
    CHOOSE y \in CalYears : DaysBeforeYear(y) <= o /\ o < DaysBeforeYear(y + 1)

MonthOf(o) ==
    LET y == YearOf(o)
    IN  CHOOSE m \in 1 .. 12 :
            Ordinal(y, m, 1) <= o /\ o < Ordinal(y, m, 1) + DaysInMonth(y, m)

DayOf(o) == o - Ordinal(YearOf(o), MonthOf(o), 1) + 1

\* date.weekday(): Monday is 0, Sunday is 6
Weekday(o) == (o + Epoch.weekday) % 7

-----------------------------------------------------------------------------
(* 5. is_trading_day, lines 146-151.                                       *)

is_trading_day(dt, hol) ==
    IF Weekday(dt) >= 5 THEN FALSE
    ELSE IF dt \in hol THEN FALSE
    ELSE TRUE

-----------------------------------------------------------------------------
(* 6. get_settlement_date, lines 157-170.                                  *)

\* SkipClosed with the weekend test of line 167 left out
RECURSIVE SkipClosedHolidaysOnly(_, _)
SkipClosedHolidaysOnly(d, hol) ==
    IF d \in hol THEN SkipClosedHolidaysOnly(d + 1, hol) ELSE d

\* the while loop of lines 167-168
RECURSIVE SkipClosed(_, _)
SkipClosed(d, hol) ==
    IF d \in hol \/ Weekday(d) >= 5 THEN SkipClosed(d + 1, hol) ELSE d

\* the for loop of lines 159-169, from `day` on with `count` Wednesdays seen;
\* first is the month's day 1 and ndays its length
RECURSIVE ScanMonth(_, _, _, _, _)
ScanMonth(first, ndays, day, count, hol) ==
    IF day > 31 THEN NoDate
    ELSE IF day > ndays THEN NoDate                      \* ValueError: break
    ELSE LET d == first + (day - 1)
         IN  IF Weekday(d) = 2
             THEN IF count + 1 = 3
                  THEN SkipClosed(d, hol)
                  ELSE ScanMonth(first, ndays, day + 1, count + 1, hol)
             ELSE ScanMonth(first, ndays, day + 1, count, hol)

get_settlement_date(year, month, hol) ==
    CHOOSE d \in { ScanMonth(first, ndays, 1, 0, hol) :
                      first \in { Ordinal(year, month, 1) },
                      ndays \in { DaysInMonth(year, month) } } : TRUE

\* the month after (y, m), lines 178-179 and 181-182: m % 12 + 1, and the
\* year one on when that is January
NextMonth(y, m) ==
    [year |-> y + (IF (m % 12) + 1 = 1 THEN 1 ELSE 0), month |-> (m % 12) + 1]

\* line 177 with the roll to the following month never taken
PastSettlementNever(today, cur0) == FALSE

\* line 177: cur and now.date() > cur
PastSettlement(today, cur0) == cur0 # NoDate /\ today > cur0

\* lines 176-180: the current settlement
CurrentSettlement(today, hol) ==
    IF PastSettlement(today,
                      get_settlement_date(YearOf(today), MonthOf(today), hol))
    THEN get_settlement_date(NextMonth(YearOf(today), MonthOf(today)).year,
                             NextMonth(YearOf(today), MonthOf(today)).month, hol)
    ELSE get_settlement_date(YearOf(today), MonthOf(today), hol)

\* lines 181-183: the pair returned for the current settlement cur;
\* raised: cur is None at line 181 (AttributeError)
WithNextSettlement(cur, hol) ==
    IF cur = NoDate
    THEN [cur |-> NoDate, next |-> NoDate, raised |-> TRUE]
    ELSE [cur |-> cur,
          next |-> get_settlement_date(NextMonth(YearOf(cur), MonthOf(cur)).year,
                                       NextMonth(YearOf(cur), MonthOf(cur)).month,
                                       hol),
          raised |-> FALSE]

\* get_settlements, lines 173-183, with `today` the date of its own now()
get_settlements(today, hol) ==
    CHOOSE r \in { WithNextSettlement(cur, hol) :
                      cur \in { CurrentSettlement(today, hol) } } : TRUE

\* CountDays with Saturday counted as a weekday (weekday() < 6)
RECURSIVE CountDaysSaturday(_, _, _, _)
CountDaysSaturday(d, target, hol, count) ==
    IF d < target
    THEN LET d1 == d + 1
         IN  CountDaysSaturday(d1, target, hol,
                       IF Weekday(d1) < 6 /\ d1 \notin hol THEN count + 1 ELSE count)
    ELSE count

\* the while loop of trading_days_until, lines 189-192
RECURSIVE CountDays(_, _, _, _)
CountDays(d, target, hol, count) ==
    IF d < target
    THEN LET d1 == d + 1
         IN  CountDays(d1, target, hol,
                       IF Weekday(d1) < 5 /\ d1 \notin hol THEN count + 1 ELSE count)
    ELSE count

\* trading_days_until, lines 186-193, with `today` the date of its own now()
trading_days_until(target, today, hol) == CountDays(today, target, hol, 0)

-----------------------------------------------------------------------------
(* 2. get_session, lines 39-51.                                            *)

MinutesPerDay == 24 * 60

\* the values FORCE_SESSION takes after strip().upper(): unset, the two the
\* code knows, and one it does not
Forces == {"", "DAY", "NIGHT", "CLOSED"}

\* SessionOfClock with the day session closing at 13:55 exclusive
SessionOfClockEarlyClose(total) ==
    IF 8 * 60 + 45 <= total /\ total < 13 * 60 + 55 THEN "DAY"
    ELSE IF total >= 15 * 60 + 10 \/ total <= 5 * 60 THEN "NIGHT"
    ELSE "CLOSED"

\* the clock's branch, lines 45-51, with total = hour * 60 + minute
SessionOfClock(total) ==
    IF 8 * 60 + 45 <= total /\ total <= 13 * 60 + 55 THEN "DAY"
    ELSE IF total >= 15 * 60 + 10 \/ total <= 5 * 60 THEN "NIGHT"
    ELSE "CLOSED"

get_session(frc, total) ==
    IF frc \in {"DAY", "NIGHT"} THEN frc ELSE SessionOfClock(total)

-----------------------------------------------------------------------------
(* Values a variable holds before the program assigns it.                  *)

None == << >>
Some(x) == << x >>
NoQuote == [price |-> None, chg |-> None]
NoArg == [fn |-> "none"]

MainIdle ==
    /\ check_dt = NoDate
    /\ margin = [init |-> 0, maint |-> 0]
    /\ position = [lots |-> 0, entry_price |-> 0, margin_cash |-> 0]
    /\ callee = [fn |-> "none", step |-> "none", from |-> "none", asked |-> << >>]
    /\ tw = NoQuote
    /\ txf = NoQuote
    /\ us_data = [nasdaq |-> None, vix |-> None]
    /\ price_for_risk = 0
    /\ risk = None
    /\ alerts = << >>
    /\ sent = << >>
    /\ exit_status = -1
    /\ log = << >>

mainVars == << check_dt, margin, position, callee, tw, txf, us_data,
               price_for_risk, risk, alerts, sent, exit_status, log >>

-----------------------------------------------------------------------------
(* The session classifier on its own: every minute of the day and every    *)
(* value of the override.                                                  *)

SessionInit ==
    /\ pc = "session"
    /\ now \in [date : {0}, minute : 0 .. MinutesPerDay - 1]
    /\ clock = now
    /\ force \in Forces
    /\ holidays = {}
    /\ session = ""
    /\ settlement = NoDate
    /\ next_s = NoDate
    /\ days_left = 0
    /\ arg = NoArg
    /\ ret = NoArg
    /\ MainIdle

CallGetSession ==
    /\ pc = "session"
    /\ session' = get_session(force, clock.minute)
    /\ pc' = "session_done"
    /\ UNCHANGED << now, clock, force, holidays, settlement, next_s, days_left,
                    arg, ret >>
    /\ UNCHANGED mainVars

SessionNext == CallGetSession

SpecSession == SessionInit /\ [][SessionNext]_vars

-----------------------------------------------------------------------------
(* The calendar resolver on its own: every day of the years as "today",    *)
(* and holiday sets that close a run of days of the third week of today's  *)
(* month or of the month after it.                                         *)

CalDates == 0 .. DaysBeforeYear(Epoch.year + NumYears) - 1

\* the days start .. start + len - 1
Block(start, len) == { start + i : i \in 0 .. len - 1 }

HolidayBlocks(today) ==
    LET y  == YearOf(today)
        m  == MonthOf(today)
        n  == NextMonth(y, m)
    IN  { Block(Ordinal(ym.year, ym.month, day), len) :
            ym \in {[year |-> y, month |-> m], n},
            day \in 15 .. 21,
            len \in 0 .. MaxBlock }

CalInit ==
    /\ pc = "cal"
    /\ now \in [date : CalDates, minute : {0}]
    /\ clock = now
    /\ force = ""
    /\ holidays \in HolidayBlocks(now.date)
    /\ session = ""
    /\ settlement = NoDate
    /\ next_s = NoDate
    /\ days_left = 0
    /\ arg = NoArg
    /\ ret = NoArg
    /\ MainIdle

\* get_settlement_date(year, month, holidays) for today's month and the next
CallGetSettlementDate ==
    /\ pc = "cal"
    /\ \E ym \in { [year |-> YearOf(now.date), month |-> MonthOf(now.date)],
                   NextMonth(YearOf(now.date), MonthOf(now.date)) } :
          /\ arg' = [fn |-> "get_settlement_date", year |-> ym.year, month |-> ym.month]
          /\ ret' = get_settlement_date(ym.year, ym.month, holidays)
    /\ pc' = "called"
    /\ UNCHANGED << now, clock, force, holidays, session, settlement, next_s, days_left >>
    /\ UNCHANGED mainVars

\* settlement, next_s = get_settlements(holidays)
CallGetSettlements ==
    /\ pc = "cal"
    /\ LET r == get_settlements(clock.date, holidays)
       IN  /\ arg' = [fn |-> "get_settlements", today |-> clock.date]
           /\ ret' = r
           /\ settlement' = r.cur
           /\ next_s' = r.next
    /\ pc' = "settled"
    /\ UNCHANGED << now, clock, force, holidays, session, days_left >>
    /\ UNCHANGED mainVars

\* days_left = trading_days_until(settlement, holidays)
CallTradingDaysUntil ==
    /\ pc \in {"settled", "counted"}
    /\ settlement # NoDate
    /\ arg' = [fn |-> "trading_days_until", target |-> settlement, today |-> clock.date]
    /\ ret' = trading_days_until(settlement, clock.date, holidays)
    /\ days_left' = ret'
    /\ pc' = "counted"
    /\ UNCHANGED << now, clock, force, holidays, session, settlement, next_s >>
    /\ UNCHANGED mainVars

\* a day passes and trading_days_until(settlement) is asked again
AdvanceDay ==
    /\ pc = "counted"
    /\ clock.date < settlement
    /\ clock.date - now.date < MaxAdvance
    /\ clock' = [clock EXCEPT !.date = @ + 1]
    /\ arg' = [fn |-> "trading_days_until", target |-> settlement, today |-> clock.date + 1]
    /\ ret' = trading_days_until(settlement, clock.date + 1, holidays)
    /\ days_left' = ret'
    /\ UNCHANGED << pc, now, force, holidays, session, settlement, next_s >>
    /\ UNCHANGED mainVars

CalNext ==
    \/ CallGetSettlementDate
    \/ CallGetSettlements
    \/ CallTradingDaysUntil
    \/ AdvanceDay

SpecCal == CalInit /\ [][CalNext]_vars

-----------------------------------------------------------------------------
(* Decimal arithmetic: exact rationals, and Python's round().              *)

Rat(n, d) == IF d < 0 THEN [n |-> -n, d |-> -d] ELSE [n |-> n, d |-> d]

RatLe(a, b) == a.n * b.d <= b.n * a.d
RatGe(a, b) == a.n * b.d >= b.n * a.d

\* round(n / d) for d > 0, a tie going to the even neighbour
RoundHalfEven(n, d) ==
    LET q == n \div d
        r == n - q * d
    IN  IF 2 * r < d THEN q
        ELSE IF 2 * r > d THEN q + 1
        ELSE IF q % 2 = 0 THEN q ELSE q + 1

\* `if x:` for a price that may be None: None and 0 are false
PyTruthy(opt) == opt # None /\ opt[1] # 0

-----------------------------------------------------------------------------
(* 8. The price sources, lines 226-324.                                    *)

\* what TA_Handler.get_analysis() gives: an exception, or the indicators
TradingViewRaws ==
    { [ok |-> FALSE, close |-> 0, open |-> 0],
      [ok |-> TRUE, close |-> 21800, open |-> 22000],
      [ok |-> TRUE, close |-> 19500, open |-> 20000],
      [ok |-> TRUE, close |-> 0, open |-> 20000],
      [ok |-> TRUE, close |-> 21800, open |-> 0] }

\* what yf.Ticker("^TWII").history(period="3d") gives: an exception, or the
\* closes, oldest first
TwiiRaws ==
    { [ok |-> FALSE, closes |-> << >>],
      [ok |-> TRUE, closes |-> << 20500 >>],
      [ok |-> TRUE, closes |-> << 22000, 21025, 20500 >>] }

NasdaqRaws ==
    { [ok |-> FALSE, closes |-> << >>],
      [ok |-> TRUE, closes |-> << 20000, 19700 >>],
      [ok |-> TRUE, closes |-> << 20000, 19800 >>] }

VixRaws ==
    { [ok |-> FALSE, closes |-> << >>],
      [ok |-> TRUE, closes |-> << 24, 25 >>],
      [ok |-> TRUE, closes |-> << 25, 24 >>] }

\* chg = (cur - prev) / prev * 100; prev = 0 raises ZeroDivisionError
PctChange(cur, prev) == Rat((cur - prev) * 100, prev)

\* lines 230-247: the try block of the TradingView source
TradingViewQuote(raw) ==
    IF ~raw.ok THEN NoQuote
    ELSE IF raw.open = 0 THEN NoQuote
    ELSE [price |-> Some(raw.close), chg |-> Some(PctChange(raw.close, raw.open))]

\* lines 250-261: the try block of the Yahoo Finance source
YahooQuote(raw) ==
    IF ~raw.ok THEN NoQuote
    ELSE IF Len(raw.closes) >= 2
    THEN LET cur  == raw.closes[Len(raw.closes)]
             prev == raw.closes[Len(raw.closes) - 1]
         IN  IF prev = 0 THEN NoQuote
             ELSE [price |-> Some(cur), chg |-> Some(PctChange(cur, prev))]
    ELSE NoQuote

\* the sources of get_tw_index and of get_txf_night, in the order of the code
Sources == << "tradingview", "yahoo" >>

\* a resolver that goes on to Yahoo whatever TradingView gave
NextSourceAlways(step, q) == IF step = "tradingview" THEN "yahoo" ELSE "return"

\* after source `step` gave q: return it (lines 245, 258), or go on to the
\* next source, or return (None, None) after the last (line 264)
NextSource(step, q) ==
    IF q # NoQuote THEN "return"
    ELSE IF step = "tradingview" THEN "yahoo"
    ELSE "return"

\* one element of get_us_markets' results, lines 312-323
UsEntry(raw) ==
    LET q == YahooQuote(raw)
    IN  IF q = NoQuote THEN None ELSE Some([price |-> q.price[1], chg |-> q.chg[1]])

-----------------------------------------------------------------------------
(* 9. calc_risk and danger_label, lines 330-358.                           *)

\* call_price of line 341, before rounding
CallPrice(pos, current_price, margin_maint) ==
    LET lots       == pos.lots
        pnl_points == (current_price - pos.entry_price) * lots
        pnl_twd    == pnl_points * MXF_MULTIPLIER
        equity     == pos.margin_cash + pnl_twd
        buffer_twd == equity - margin_maint * lots
    IN  IF lots > 0
        THEN Rat(pos.entry_price * MXF_MULTIPLIER * lots - buffer_twd,
                 MXF_MULTIPLIER * lots)
        ELSE Rat(pos.entry_price, 1)

\* margin_ratio and buffer_points are in tenths, as round(x, 1) leaves them
calc_risk(pos, current_price, margin_init, margin_maint) ==
    LET lots       == pos.lots
        pnl_points == (current_price - pos.entry_price) * lots
        pnl_twd    == pnl_points * MXF_MULTIPLIER
        equity     == pos.margin_cash + pnl_twd
        buffer_twd == equity - margin_maint * lots
        call_price == CallPrice(pos, current_price, margin_maint)
    IN  [ current_price     |-> current_price,
          pnl_points        |-> pnl_points,
          pnl_twd           |-> pnl_twd,
          equity            |-> equity,
          margin_ratio      |-> IF lots > 0
                                THEN RoundHalfEven(equity * 1000, margin_init * lots)
                                ELSE 0,
          buffer_points     |-> IF lots > 0
                                THEN RoundHalfEven(buffer_twd * 10, MXF_MULTIPLIER * lots)
                                ELSE 0,
          margin_call_price |-> RoundHalfEven(call_price.n, call_price.d) ]

\* danger_label of a ratio in tenths of a percent
danger_label(ratio) ==
    IF ratio < 800 THEN "critical"
    ELSE IF ratio < 1000 THEN "high"
    ELSE IF ratio < 1200 THEN "watch"
    ELSE "safe"

-----------------------------------------------------------------------------
(* The alert checks of the two branches; an alert is the number of its     *)
(* check: 1 rollover, 2 margin ratio, 3 crash, 4 Nasdaq, 5 VIX.            *)

Check(cond, k) == IF cond THEN << k >> ELSE << >>

\* the day checks with the margin test written <= 120
day_alerts_le(days, rsk, tw_chg) ==
    Check(days <= ROLLOVER_WARN_DAYS, 1)
    \o Check(rsk.margin_ratio <= 1200, 2)
    \o Check(RatLe(tw_chg, CRASH_TW_PCT), 3)

\* lines 560-566
day_alerts(days, rsk, tw_chg) ==
    Check(days <= ROLLOVER_WARN_DAYS, 1)
    \o Check(rsk.margin_ratio < 1200, 2)
    \o Check(RatLe(tw_chg, CRASH_TW_PCT), 3)

\* lines 587-598
night_alerts(days, rsk, txf_chg, us) ==
    Check(days <= ROLLOVER_WARN_DAYS, 1)
    \o Check(rsk.margin_ratio < 1200, 2)
    \o Check(txf_chg # None /\ RatLe(txf_chg[1], CRASH_TW_PCT), 3)
    \o Check(us.nasdaq # None /\ RatLe(us.nasdaq[1].chg, CRASH_US_PCT), 4)
    \o Check(us.vix # None /\ us.vix[1].price >= VIX_WARN, 5)

-----------------------------------------------------------------------------
(* 13. The main program, lines 508-608: one run.                           *)

\* the calendar days `now` is drawn from: Sunday 2026-02-15 and the days after
MainDates == { Ordinal(2026, 2, 15) + i : i \in 0 .. MaxDays - 1 }

\* 04:00, 05:30, 06:00, 10:00 and 23:59
MainMinutes == { 4 * 60, 5 * 60 + 30, 6 * 60, 10 * 60, 23 * 60 + 59 }

MainForces == {"", "DAY", "NIGHT"}

\* the built-in holiday list, lines 127-137
HolidayFallback ==
    { Ordinal(2025, 1, 1), Ordinal(2025, 1, 27), Ordinal(2025, 1, 28),
      Ordinal(2025, 1, 29), Ordinal(2025, 1, 30), Ordinal(2025, 1, 31),
      Ordinal(2025, 2, 28), Ordinal(2025, 4, 3), Ordinal(2025, 4, 4),
      Ordinal(2025, 5, 1), Ordinal(2025, 5, 30), Ordinal(2025, 10, 10),
      Ordinal(2026, 1, 1), Ordinal(2026, 2, 12), Ordinal(2026, 2, 13),
      Ordinal(2026, 2, 16), Ordinal(2026, 2, 17), Ordinal(2026, 4, 3),
      Ordinal(2026, 4, 6), Ordinal(2026, 5, 1), Ordinal(2026, 6, 19),
      Ordinal(2026, 9, 25), Ordinal(2026, 10, 9), Ordinal(2026, 10, 10) }

\* the dates the exchange's API lists for a year when it answers: for 2026
\* the week of the lunar new year, for another year its first day
ApiHolidays(year) ==
    IF year = 2026
    THEN { Ordinal(2026, 2, 16) + i : i \in 0 .. 4 }
    ELSE { Ordinal(year, 1, 1) }

\* fetch_tw_holidays, lines 95-140, for the answers of the two requests
fetch_tw_holidays(year, ok1, ok2) ==
    LET fetched == (IF ok1 THEN ApiHolidays(year) ELSE {})
                   \cup (IF ok2 THEN ApiHolidays(year + 1) ELSE {})
    IN  IF fetched = {} THEN HolidayFallback ELSE fetched

\* what the margin page gives: a failure, or the two amounts of the row
MarginRaws ==
    { [ok |-> FALSE, init |-> 0, maint |-> 0],
      [ok |-> TRUE, init |-> 17010, maint |-> 13000] }

\* fetch_mxf_margin, lines 57-88
fetch_mxf_margin(raw) ==
    IF raw.ok THEN [init |-> raw.init, maint |-> raw.maint]
    ELSE [init |-> 17000, maint |-> 13000]

\* what the sheet gives: a failure, or its second row
SheetRaws ==
    { [ok |-> FALSE, lots |-> 0, entry_price |-> 0, margin_cash |-> 0],
      [ok |-> TRUE, lots |-> 2, entry_price |-> 21000, margin_cash |-> 24786],
      [ok |-> TRUE, lots |-> 0, entry_price |-> 22000, margin_cash |-> 25000] }

\* load_position() or the default test position, lines 199-220 and 539-545
load_position(raw) ==
    IF raw.ok
    THEN [lots |-> raw.lots, entry_price |-> raw.entry_price,
          margin_cash |-> raw.margin_cash]
    ELSE [lots |-> 1, entry_price |-> 22000, margin_cash |-> 25000]

\* the clock d minutes after c
Later(c, d) ==
    IF c.minute + d >= MinutesPerDay
    THEN [date |-> c.date + 1, minute |-> c.minute + d - MinutesPerDay]
    ELSE [date |-> c.date, minute |-> c.minute + d]

\* what a later datetime.now() may read: the clock never goes back, and it
\* is at most MaxDelay minutes past `now`
ClockReads ==
    { c \in { Later(now, d) : d \in 0 .. MaxDelay } :
        c.date > clock.date \/ (c.date = clock.date /\ c.minute >= clock.minute) }

\* the gate with the previous day taken before 05:00 only
CheckDateBefore5(sess, nw) ==
    IF sess = "NIGHT" /\ nw.minute \div 60 < 5 THEN nw.date - 1 ELSE nw.date

\* the date the trading-day gate tests, lines 520-527
CheckDate(sess, nw) ==
    IF sess = "NIGHT" /\ nw.minute \div 60 < 6 THEN nw.date - 1 ELSE nw.date

\* the day branch's test written `if not tw_price`
day_price_missing_falsy(price) == ~PyTruthy(price)

\* line 554: tw_price is None
day_price_missing(price) == price = None

\* line 583: tw_price or position["entry_price"], after `if txf_price` failed
night_price(txf_price, tw_price, entry_price) ==
    IF PyTruthy(txf_price) THEN txf_price[1]
    ELSE IF PyTruthy(tw_price) THEN tw_price[1]
    ELSE entry_price

MainInit ==
    /\ pc = "m_holidays"
    /\ now \in [date : MainDates, minute : MainMinutes]
    /\ clock = now
    /\ force \in MainForces
    /\ holidays = {}
    /\ session = ""
    /\ settlement = NoDate
    /\ next_s = NoDate
    /\ days_left = 0
    /\ arg = NoArg
    /\ ret = NoArg
    /\ MainIdle

calVars == << settlement, next_s, days_left >>
driverVars == << arg, ret >>
priceVars == << callee, tw, txf, us_data, price_for_risk, risk, alerts, sent >>

\* line 513
FetchTwHolidays ==
    /\ pc = "m_holidays"
    /\ \E ok1 \in BOOLEAN, ok2 \in BOOLEAN :
          holidays' = fetch_tw_holidays(YearOf(clock.date), ok1, ok2)
    /\ log' = log \o << "holidays:this_year", "holidays:next_year" >>
    /\ pc' = "m_session"
    /\ UNCHANGED << now, clock, force, session, check_dt, margin, position,
                    exit_status >>
    /\ UNCHANGED << calVars, driverVars, priceVars >>

\* line 516
MainGetSession ==
    /\ pc = "m_session"
    /\ \E c \in ClockReads :
          /\ clock' = c
          /\ session' = get_session(force, c.minute)
    /\ pc' = "m_gate"
    /\ UNCHANGED << now, force, holidays, check_dt, margin, position,
                    exit_status, log >>
    /\ UNCHANGED << calVars, driverVars, priceVars >>

\* lines 520-533
TradingDayGate ==
    /\ pc = "m_gate"
    /\ IF session \in {"DAY", "NIGHT"}
       THEN /\ check_dt' = CheckDate(session, now)
            /\ IF is_trading_day(check_dt', holidays)
               THEN pc' = "m_margin" /\ UNCHANGED exit_status
               ELSE pc' = "skipped" /\ exit_status' = 0
       ELSE /\ pc' = "skipped"
            /\ exit_status' = 0
            /\ UNCHANGED check_dt
    /\ UNCHANGED << now, clock, force, holidays, session, margin, position, log >>
    /\ UNCHANGED << calVars, driverVars, priceVars >>

\* line 536
FetchMxfMargin ==
    /\ pc = "m_margin"
    /\ \E raw \in MarginRaws : margin' = fetch_mxf_margin(raw)
    /\ log' = Append(log, "margin")
    /\ pc' = "m_position"
    /\ UNCHANGED << now, clock, force, holidays, session, check_dt, position,
                    exit_status >>
    /\ UNCHANGED << calVars, driverVars, priceVars >>

\* lines 539-545
LoadPosition ==
    /\ pc = "m_position"
    /\ \E raw \in SheetRaws : position' = load_position(raw)
    /\ log' = Append(log, "sheet")
    /\ pc' = "m_settle"
    /\ UNCHANGED << now, clock, force, holidays, session, check_dt, margin,
                    exit_status >>
    /\ UNCHANGED << calVars, driverVars, priceVars >>

\* line 548; an exception of get_settlements ends the run with a traceback
MainGetSettlements ==
    /\ pc = "m_settle"
    /\ \E c \in ClockReads :
          /\ clock' = c
          /\ \E r \in { get_settlements(c.date, holidays) } :
                IF r.raised
                THEN /\ pc' = "crashed"
                     /\ exit_status' = 1
                     /\ UNCHANGED << settlement, next_s >>
                ELSE /\ settlement' = r.cur
                     /\ next_s' = r.next
                     /\ pc' = "m_count"
                     /\ UNCHANGED exit_status
    /\ UNCHANGED << now, force, holidays, session, check_dt, margin, position,
                    days_left, log >>
    /\ UNCHANGED << driverVars, priceVars >>

\* line 549, and the call of the session's resolver, line 553 or 576
MainTradingDaysUntil ==
    /\ pc = "m_count"
    /\ \E c \in ClockReads :
          /\ clock' = c
          /\ days_left' = trading_days_until(settlement, c.date, holidays)
    /\ pc' = "resolver"
    /\ callee' = IF session = "DAY"
                 THEN [fn |-> "get_tw_index", step |-> "tradingview",
                       from |-> "day", asked |-> << >>]
                 ELSE [fn |-> "get_txf_night", step |-> "tradingview",
                       from |-> "night", asked |-> << >>]
    /\ UNCHANGED << now, force, holidays, session, check_dt, margin, position,
                    settlement, next_s, exit_status, log >>
    /\ UNCHANGED << driverVars, tw, txf, us_data, price_for_risk, risk, alerts, sent >>

\* the resolver returns q to its caller
Return(q, asked) ==
    /\ callee' = [callee EXCEPT !.step = "returned", !.asked = asked]
    /\ IF callee.fn = "get_tw_index"
       THEN tw' = q /\ UNCHANGED txf
       ELSE txf' = q /\ UNCHANGED tw
    /\ pc' = IF callee.from = "day" THEN "m_day"
             ELSE IF callee.from = "night" THEN "m_us"
             ELSE "m_night"

\* lines 230-247 and 271-288: source 1, TradingView TAIFEX:TXF1!
AskTradingView ==
    /\ pc = "resolver"
    /\ callee.step = "tradingview"
    /\ \E raw \in TradingViewRaws :
          LET q     == TradingViewQuote(raw)
              asked == Append(callee.asked,
                               [src |-> "tradingview", raw |-> raw, out |-> q])
          IN  IF NextSource("tradingview", q) = "return"
              THEN Return(q, asked)
              ELSE /\ callee' = [callee EXCEPT !.step = "yahoo", !.asked = asked]
                   /\ UNCHANGED << pc, tw, txf >>
    /\ log' = Append(log, "tradingview:TXF1!")
    /\ UNCHANGED << now, clock, force, holidays, session, check_dt, margin,
                    position, exit_status >>
    /\ UNCHANGED << calVars, driverVars, us_data, price_for_risk, risk, alerts, sent >>

\* lines 250-264 and 291-305: source 2, Yahoo Finance ^TWII
AskYahoo ==
    /\ pc = "resolver"
    /\ callee.step = "yahoo"
    /\ \E raw \in TwiiRaws :
          LET q     == YahooQuote(raw)
              asked == Append(callee.asked,
                               [src |-> "yahoo", raw |-> raw, out |-> q])
          IN  Return(q, asked)
    /\ log' = Append(log, "yahoo:^TWII")
    /\ UNCHANGED << now, clock, force, holidays, session, check_dt, margin,
                    position, exit_status >>
    /\ UNCHANGED << calVars, driverVars, us_data, price_for_risk, risk, alerts, sent >>

\* the text handed to send_line, as what it is built from
Payload(kind, rsk, alts) ==
    [kind |-> kind, alerts |-> alts, label |-> danger_label(rsk.margin_ratio)]

\* lines 552-572 and 605-608: the day branch, to the end of the run
DayBranch ==
    /\ pc = "m_day"
    /\ IF day_price_missing(tw.price)
       THEN /\ pc' = "failed"
            /\ exit_status' = 1
            /\ UNCHANGED << price_for_risk, risk, alerts, sent, log >>
       ELSE /\ price_for_risk' = tw.price[1]
            /\ risk' = Some(calc_risk(position, price_for_risk', margin.init, margin.maint))
            /\ alerts' = day_alerts(days_left, risk'[1], tw.chg[1])
            /\ sent' = Append(sent, Payload("day", risk'[1], alerts'))
            /\ log' = Append(log, "line")
            /\ pc' = "done"
            /\ exit_status' = 0
    /\ UNCHANGED << now, clock, force, holidays, session, check_dt, margin, position >>
    /\ UNCHANGED << calVars, driverVars, callee, tw, txf, us_data >>

\* line 577, and lines 579-582: with no usable night price, get_tw_index
GetUsMarkets ==
    /\ pc = "m_us"
    /\ \E n \in NasdaqRaws, v \in VixRaws :
          us_data' = [nasdaq |-> UsEntry(n), vix |-> UsEntry(v)]
    /\ log' = log \o << "yahoo:^IXIC", "yahoo:^VIX" >>
    /\ IF PyTruthy(txf.price)
       THEN pc' = "m_night" /\ UNCHANGED callee
       ELSE /\ pc' = "resolver"
            /\ callee' = [fn |-> "get_tw_index", step |-> "tradingview",
                          from |-> "fallback", asked |-> << >>]
    /\ UNCHANGED << now, clock, force, holidays, session, check_dt, margin,
                    position, exit_status >>
    /\ UNCHANGED << calVars, driverVars, tw, txf, price_for_risk, risk, alerts, sent >>

\* lines 579-603 and 605-608: the night branch, to the end of the run
NightBranch ==
    /\ pc = "m_night"
    /\ price_for_risk' = night_price(txf.price, tw.price, position.entry_price)
    /\ risk' = Some(calc_risk(position, price_for_risk', margin.init, margin.maint))
    /\ alerts' = night_alerts(days_left, risk'[1], txf.chg, us_data)
    /\ sent' = Append(sent, Payload("night", risk'[1], alerts'))
    /\ log' = Append(log, "line")
    /\ pc' = "done"
    /\ exit_status' = 0
    /\ UNCHANGED << now, clock, force, holidays, session, check_dt, margin, position >>
    /\ UNCHANGED << calVars, driverVars, callee, tw, txf, us_data >>

MainNext ==
    \/ FetchTwHolidays
    \/ MainGetSession
    \/ TradingDayGate
    \/ FetchMxfMargin
    \/ LoadPosition
    \/ MainGetSettlements
    \/ MainTradingDaysUntil
    \/ AskTradingView
    \/ AskYahoo
    \/ DayBranch
    \/ GetUsMarkets
    \/ NightBranch

Spec == MainInit /\ [][MainNext]_vars

\* a run is one process that is never suspended for ever: the interpreter
\* goes on to the next statement of __main__, and every request has a timeout
FairSpec == Spec /\ WF_vars(MainNext)

-----------------------------------------------------------------------------
(* Properties of the calendar resolver and of the session classifier.      *)

\* a day the exchange is closed: a weekend day or a holiday
Closed(d, hol) == Weekday(d) >= 5 \/ d \in hol

\* the month's third Wednesday, whatever the holidays
ThirdWednesday(y, m) ==
    CHOOSE d \in Ordinal(y, m, 15) .. Ordinal(y, m, 21) : Weekday(d) = 2

SettlementDateCalled == pc = "called" /\ arg.fn = "get_settlement_date"

\* C3, as the specification states it: get_settlement_date returns a
\* Wednesday that is neither a weekend day nor a holiday, the earliest such
\* date on or after the month's third Wednesday.
C3_ReturnsWednesday ==
    SettlementDateCalled =>
        /\ ret # NoDate
        /\ Weekday(ret) = 2
        /\ ~Closed(ret, holidays)
        /\ ret >= ThirdWednesday(arg.year, arg.month)
        /\ \A d \in ThirdWednesday(arg.year, arg.month) .. ret - 1 :
              Closed(d, holidays) \/ Weekday(d) # 2

\* C3, amended: get_settlement_date returns the earliest date on or after the
\* month's third Wednesday that is neither a weekend day nor a holiday; it is
\* the third Wednesday itself exactly when that day is no holiday.
C3_EarliestOpenDay ==
    SettlementDateCalled =>
        /\ ret # NoDate
        /\ ~Closed(ret, holidays)
        /\ ret >= ThirdWednesday(arg.year, arg.month)
        /\ \A d \in ThirdWednesday(arg.year, arg.month) .. ret - 1 :
              Closed(d, holidays)
        /\ ret = ThirdWednesday(arg.year, arg.month)
              <=> ~Closed(ThirdWednesday(arg.year, arg.month), holidays)

\* the third Wednesday and the two days after it are holidays, and the
\* settlement moved over the weekend to the Monday
C3_Witness ==
    /\ SettlementDateCalled
    /\ ThirdWednesday(arg.year, arg.month) \in holidays
    /\ ret = ThirdWednesday(arg.year, arg.month) + 5
    /\ Weekday(ret) = 0

\* C4: for a fixed target and holiday set, trading_days_until(target) drops
\* by exactly one when the day "now" moves onto is a weekday that is no
\* holiday, is unchanged otherwise, so never increases, and is 0 when "now"
\* is the target date.
C4_Countdown ==
    /\ [][ (pc = "counted" /\ pc' = "counted" /\ clock'.date = clock.date + 1)
            => /\ days_left' = days_left -
                    (IF Weekday(clock'.date) < 5 /\ clock'.date \notin holidays
                     THEN 1 ELSE 0)
               /\ days_left' <= days_left ]_vars
    /\ [](pc = "counted" /\ clock.date = settlement => days_left = 0)

\* "now" has advanced over a holiday and a weekend onto the target date
C4_Witness ==
    /\ pc = "counted"
    /\ clock.date = now.date + MaxAdvance
    /\ clock.date = settlement
    /\ days_left = 0
    /\ \E d \in now.date + 1 .. clock.date : d \in holidays

\* the month get_settlements is to choose for the current settlement: the
\* present one, or the one after it when today is past its settlement
ChosenMonth(today, hol) ==
    IF today > get_settlement_date(YearOf(today), MonthOf(today), hol)
    THEN NextMonth(YearOf(today), MonthOf(today))
    ELSE [year |-> YearOf(today), month |-> MonthOf(today)]

\* C10: get_settlements returns as current the settlement of the present
\* month, or of the following month when today is strictly after it, and as
\* next the settlement of the calendar month right after the chosen month.
C10_NextFollowsChosenMonth ==
    (pc = "settled" /\ arg.fn = "get_settlements") =>
        LET c == ChosenMonth(arg.today, holidays)
            n == NextMonth(c.year, c.month)
        IN  /\ ~ret.raised
            /\ ret.cur = get_settlement_date(c.year, c.month, holidays)
            /\ ret.next = get_settlement_date(n.year, n.month, holidays)

SessionCalled == pc = "session_done"

\* the session the clock alone gives, in minutes since midnight
ClockSession(minute) ==
    IF minute \in 525 .. 835 THEN "DAY"
    ELSE IF minute \in 910 .. 1439 \/ minute \in 0 .. 300 THEN "NIGHT"
    ELSE "CLOSED"

-----------------------------------------------------------------------------
(* Properties of one run of the main program.                              *)

Terminal == pc \in {"skipped", "failed", "done", "crashed"}

\* a weekday that is no holiday
OpenDay(d, hol) == Weekday(d) < 5 /\ d \notin hol

\* C1: a run ends, and in exactly one of three ways: with the session CLOSED
\* or the trading-day check failed, exit status 0 and nothing sent; in the
\* DAY session with no price, exit status 1 and nothing sent; otherwise
\* exactly one payload passed to send_line, whatever else was unavailable.
C1_ThreeOutcomes ==
    /\ <>Terminal
    /\ [](~Terminal => exit_status = -1 /\ sent = << >>)
    /\ [](Terminal =>
            IF session = "CLOSED" \/ ~OpenDay(check_dt, holidays)
            THEN pc = "skipped" /\ exit_status = 0 /\ sent = << >>
            ELSE IF session = "DAY" /\ tw = NoQuote
            THEN pc = "failed" /\ exit_status = 1 /\ sent = << >>
            ELSE pc = "done" /\ exit_status = 0 /\ Len(sent) = 1)

\* a night run with the margin table, the sheet, every price source and both
\* auxiliary indices unavailable still sends its one payload
C1_Witness ==
    /\ pc = "done"
    /\ session = "NIGHT"
    /\ txf = NoQuote
    /\ tw = NoQuote
    /\ us_data = [nasdaq |-> None, vix |-> None]
    /\ Len(callee.asked) = 2
    /\ Len(sent) = 1

\* C2: for lots > 0 the margin_call_price of calc_risk, before rounding, is
\* the price at which equity = margin_cash + (p - entry_price) * lots *
\* multiplier equals maintenance_margin * lots.
C2_CallPriceIsMaintenanceLevel ==
    (pc = "done" /\ position.lots > 0) =>
        LET p == CallPrice(position, price_for_risk, margin.maint)
        IN  position.margin_cash * p.d
              + (p.n - position.entry_price * p.d) * position.lots * MXF_MULTIPLIER
            = margin.maint * position.lots * p.d

PastGate == pc \in {"skipped", "failed", "done", "crashed", "m_margin",
                    "m_position", "m_settle", "m_count", "resolver", "m_day",
                    "m_us", "m_night"}

\* the session has been classified
Classified == pc \notin {"m_holidays", "m_session"}

\* C6 as claimed: the gate tests now - 1 day in the NIGHT session before
\* 06:00, the current day in the NIGHT session from 06:00 on and always in
\* the DAY session; and, by the clock, a run at 04:00 is NIGHT with the eve
\* tested and a run at 06:00 is NIGHT with the current day tested.
C6_SixOClockExtended ==
    /\ (PastGate /\ session \in {"DAY", "NIGHT"}) =>
          /\ session = "NIGHT" =>
                check_dt = IF now.minute < 360 THEN now.date - 1 ELSE now.date
          /\ session = "DAY" => check_dt = now.date
          /\ pc = "skipped" <=> ~OpenDay(check_dt, holidays)
    /\ (Classified /\ force = "" /\ now.minute = 240) =>
          /\ session = "NIGHT"
          /\ PastGate => check_dt = now.date - 1
    /\ (Classified /\ force = "" /\ now.minute = 360) =>
          /\ session = "NIGHT"
          /\ PastGate => check_dt = now.date

\* C6: the trading-day gate tests now - 1 day in the NIGHT session before
\* 06:00, the current day in the NIGHT session from 06:00 on and always in
\* the DAY session, and the run goes on exactly when that day is a weekday
\* that is no holiday; by the clock a run at 04:00 is NIGHT with the eve
\* tested, and a run at 06:00 is CLOSED and skipped: it is a NIGHT run, with
\* the current day tested, only under the override NIGHT.
C6_GateTestsRightDay ==
    /\ (PastGate /\ session \in {"DAY", "NIGHT"}) =>
          /\ session = "NIGHT" =>
                check_dt = IF now.minute < 360 THEN now.date - 1 ELSE now.date
          /\ session = "DAY" => check_dt = now.date
          /\ pc = "skipped" <=> ~OpenDay(check_dt, holidays)
    /\ (Classified /\ force = "" /\ now.minute = 240) =>
          /\ session = "NIGHT"
          /\ PastGate => check_dt = now.date - 1
    /\ (Classified /\ force = "" /\ now.minute = 360) =>
          /\ session = "CLOSED"
          /\ PastGate => pc = "skipped"
    /\ (Classified /\ force = "NIGHT" /\ now.minute = 360) =>
          /\ session = "NIGHT"
          /\ PastGate => check_dt = now.date

\* a run at 04:00 of an open day whose eve was a holiday: the NIGHT session
\* tests the eve and the run is skipped
C6_Witness ==
    /\ pc = "skipped"
    /\ force = ""
    /\ session = "NIGHT"
    /\ now.minute = 240
    /\ check_dt = now.date - 1
    /\ OpenDay(now.date, holidays)

\* a source is unavailable when it raised, had fewer than two data points,
\* or its previous value is 0 (the division raises)
Unavailable(a) ==
    IF a.src = "tradingview" THEN ~a.raw.ok \/ a.raw.open = 0
    ELSE \/ ~a.raw.ok
         \/ Len(a.raw.closes) < 2
         \/ a.raw.closes[Len(a.raw.closes) - 1] = 0

\* the current price a source gave
SourcePrice(a) ==
    IF a.src = "tradingview" THEN a.raw.close ELSE a.raw.closes[Len(a.raw.closes)]

\* C7: a resolver consults its sources in the declared order, a later one
\* only when every earlier one was unavailable, returns the price and the
\* percent change of the first available source, and (None, None) when none
\* is available.
C7_FirstAvailableSource ==
    callee.fn # "none" =>
        LET a      == callee.asked
            n      == Len(a)
            result == IF callee.fn = "get_tw_index" THEN tw ELSE txf
        IN  /\ n <= Len(Sources)
            /\ \A i \in 1 .. n : a[i].src = Sources[i]
            /\ \A i \in 1 .. n - 1 : Unavailable(a[i])
            /\ callee.step = "returned" =>
                  /\ n >= 1
                  /\ IF Unavailable(a[n])
                     THEN n = Len(Sources) /\ result = NoQuote
                     ELSE /\ result.price = Some(SourcePrice(a[n]))
                          /\ result.chg = a[n].out.chg
                          /\ result.chg # None

\* TradingView was unavailable and Yahoo's quote came back
C7_Witness ==
    /\ callee.step = "returned"
    /\ callee.fn = "get_tw_index"
    /\ Len(callee.asked) = 2
    /\ Unavailable(callee.asked[1])
    /\ ~Unavailable(callee.asked[2])
    /\ tw.price = Some(20500)

\* C8: in the NIGHT session the price handed to calc_risk is the session
\* quote whenever it is available, else the quote of get_tw_index, else the
\* entry price, and the payload is sent in all three cases.
C8_SessionQuoteUsedWhenAvailable ==
    (pc = "done" /\ session = "NIGHT") =>
        /\ Len(sent) = 1
        /\ risk[1].current_price = price_for_risk
        /\ price_for_risk =
              IF txf # NoQuote THEN txf.price[1]
              ELSE IF tw # NoQuote THEN tw.price[1]
              ELSE position.entry_price

\* the alerts as a set
AlertSet == { alerts[i] : i \in 1 .. Len(alerts) }

\* C9: the alerts are in the order 1 rollover, 2 margin ratio, 3 crash,
\* 4 Nasdaq, 5 VIX, each at most once and each exactly when its condition
\* holds; 2 exactly when the label is not the safe band; 4 and 5 only in
\* the NIGHT session and only with their data present.
C9_AlertsInOrderIffConditions ==
    pc = "done" =>
        LET chg == IF session = "DAY" THEN tw.chg ELSE txf.chg
        IN  /\ \A i \in 1 .. Len(alerts) - 1 : alerts[i] < alerts[i + 1]
            /\ AlertSet \subseteq 1 .. 5
            /\ 1 \in AlertSet <=> days_left <= 3
            /\ 2 \in AlertSet <=> risk[1].margin_ratio < 1200
            /\ 2 \in AlertSet <=> sent[1].label # "safe"
            /\ 3 \in AlertSet <=> (chg # None /\ RatLe(chg[1], Rat(-5, 2)))
            /\ 4 \in AlertSet <=> /\ session = "NIGHT"
                                  /\ us_data.nasdaq # None
                                  /\ RatLe(us_data.nasdaq[1].chg, Rat(-3, 2))
            /\ 5 \in AlertSet <=> /\ session = "NIGHT"
                                  /\ us_data.vix # None
                                  /\ us_data.vix[1].price >= 25
            /\ sent[1].alerts = alerts

\* a night run in which all five checks fire
C9_Witness ==
    /\ pc = "done"
    /\ session = "NIGHT"
    /\ alerts = << 1, 2, 3, 4, 5 >>

-----------------------------------------------------------------------------
(* Requests of one run, and the pair of settlements.                       *)

\* C11: within one run each external source is requested at most once: the
\* holiday calendar of each year, the margin table, the sheet, each price
\* source of an instrument, each auxiliary index and the notification sink,
\* the fallback from get_txf_night to get_tw_index included.
C11_EachSourceAtMostOnce ==
    \A i \in 1 .. Len(log) : \A j \in 1 .. Len(log) : i < j => log[i] # log[j]

\* get_settlements has returned, for the `today` its now() read
SettlementsCalled ==
    /\ pc \in {"settled", "counted"}
    /\ arg.fn \in {"get_settlements", "trading_days_until"}

\* the trading days of (today, target]
OpenDaysUntil(today, target, hol) ==
    { d \in today + 1 .. target : OpenDay(d, hol) }

\* C12: the pair (current, next) of get_settlements has current >= today and
\* next > current, both are trading days, and trading_days_until(current) is
\* the number of trading days in (today, current]: never negative, and 0
\* only when that interval holds no trading day.
C12_ForwardPair ==
    SettlementsCalled =>
        /\ settlement # NoDate /\ next_s # NoDate
        /\ settlement >= now.date
        /\ next_s > settlement
        /\ OpenDay(settlement, holidays)
        /\ OpenDay(next_s, holidays)
        /\ pc = "counted" =>
              /\ days_left = Cardinality(OpenDaysUntil(clock.date, settlement, holidays))
              /\ days_left >= 0
              /\ days_left = 0 => OpenDaysUntil(clock.date, settlement, holidays) = {}

\* today is past its month's settlement, so the following month's is the
\* current one, and holidays lie between today and it
C12_Witness ==
    /\ pc = "counted"
    /\ arg.fn = "trading_days_until"
    /\ now.date > get_settlement_date(YearOf(now.date), MonthOf(now.date), holidays)
    /\ MonthOf(settlement) # MonthOf(now.date)
    /\ \E d \in clock.date + 1 .. settlement : d \in holidays
    /\ days_left > 0


=============================================================================
